---- MODULE Spec2Model ----
(***************************************************************************)
(* Ledger and copy-trade propagation of the admin dashboard                *)
(* (dashboard/views.py) together with the loyalty-tier helpers of          *)
(* app/management/commands/sync_loyalty_tiers.py.                          *)
(*                                                                         *)
(* Money is a whole number of currency units.  Trade base amounts are      *)
(* multiples of 100 and percentages are whole numbers, so that             *)
(* amount * percent / 100 is exact, as it is for Python's Decimal.         *)
(***************************************************************************)
EXTENDS Integers, Sequences, FiniteSets, TLC

(***************************************************************************)
(* Bounds of the model.                                                    *)
(***************************************************************************)
\* largest amount an admin types into an edit form
MaxAmount == 2
\* largest balance an account holds before the first admin action
MaxOpening == 2
\* largest absolute balance the model follows an account to
MaxBalance == 4
\* number of trades recorded in one behaviour
MaxTrades == 2
\* number of admin actions in one behaviour of the whole system
MaxOps == 3
\* largest base amount of a trade, in hundreds
MaxTradeHundreds == 2
\* largest absolute profit/loss percentage of a trade
MaxPercent == 1
\* number of runs of sync_loyalty_tiers in one behaviour
MaxRuns == 3
\* largest number of accounts in the table when sync_loyalty_tiers walks it in chunks
MaxAccounts == 4
\* CHUNK_SIZE of sync_loyalty_tiers, scaled down from 100 to the size of the table
CHUNK_SIZE == 2

Users == {"u1", "u2"}
\* Transaction rows with transaction_type deposit, and with transaction_type withdrawal
Deposits == {"d1", "d2"}
Withdrawals == {"w1"}
Txns == Deposits \cup Withdrawals
\* the request an account has open before the first admin action
InitialTxns == {"d1", "w1"}
\* Transaction.user
TxnUser(t) == "u1"
\* UserTraderCopy.initial_investment_amount: the copiers' own stakes differ
InvestmentOf(u) == IF u = "u1" THEN 100 ELSE 300

\* EditDepositForm.STATUS_CHOICES / EditWithdrawalForm.STATUS_CHOICES
Statuses == {"pending", "completed", "failed", "cancelled"}
\* ApproveDepositForm.STATUS_CHOICES / ApproveWithdrawalForm.STATUS_CHOICES
ApproveChoices == {"completed", "failed"}
\* UserCopyTraderHistory.STATUS_CHOICES as used by the views
TradeStatuses == {"open", "closed"}
\* values a DecimalField amount of an edit form takes in the model
Amounts == 1..MaxAmount
TradeAmounts == {100 * k : k \in 1..MaxTradeHundreds}
\* values of AddUserDirectTradeForm.investment_amount
InvestmentAmounts == {100 * k : k \in 1..MaxTradeHundreds}
\* CustomUser rows in the order of their ids
UserOrder == <<"u1", "u2">>
\* CustomUser ids in ascending order, for tables of up to six accounts
AccountOrder == <<"u1", "u2", "u3", "u4", "u5", "u6">>
Percents == (0 - MaxPercent)..MaxPercent

Max(a, b) == IF a >= b THEN a ELSE b

(***************************************************************************)
(* Loyalty tiers.  LOYALTY_TIER_ORDER and LOYALTY_TIER_CONFIG live on      *)
(* CustomUser; the table below is an ascending three-tier instance.        *)
(***************************************************************************)
TIER_ORDER == <<"iron", "bronze", "silver">>
TIER_CONFIG == [iron |-> [min_deposit |-> 0],
                bronze |-> [min_deposit |-> MaxAmount],
                silver |-> [min_deposit |-> 2 * MaxAmount]]

\* determine_tier comparing with > in place of >=
determine_tier_strict(total_deposits) ==
    LET above == {i \in 1..Len(TIER_ORDER) :
                    total_deposits > TIER_CONFIG[TIER_ORDER[i]].min_deposit}
    IN IF above = {} THEN "iron"
       ELSE TIER_ORDER[CHOOSE i \in above : \A j \in above : j <= i]

RECURSIVE TierScan(_, _, _)
\* the loop of determine_tier: the last qualifying key wins
TierScan(total_deposits, i, tier) ==
    IF i > Len(TIER_ORDER) THEN tier
    ELSE TierScan(total_deposits, i + 1,
                  IF total_deposits >= TIER_CONFIG[TIER_ORDER[i]].min_deposit
                  THEN TIER_ORDER[i] ELSE tier)

determine_tier(total_deposits) == TierScan(total_deposits, 1, "iron")

\* TIER_ORDER.index(current_tier)
TierIndex(tier) == CHOOSE i \in 1..Len(TIER_ORDER) : TIER_ORDER[i] = tier

\* get_next_tier_info going round to the first tier after the last
get_next_tier_info_wraps(current_tier) ==
    LET idx == TierIndex(current_tier) IN
    IF idx < Len(TIER_ORDER)
    THEN [next |-> TIER_ORDER[idx + 1],
          amount |-> TIER_CONFIG[TIER_ORDER[idx + 1]].min_deposit]
    ELSE [next |-> TIER_ORDER[1], amount |-> TIER_CONFIG[TIER_ORDER[1]].min_deposit]

get_next_tier_info(current_tier) ==
    LET idx == TierIndex(current_tier) IN
    IF idx < Len(TIER_ORDER)
    THEN [next |-> TIER_ORDER[idx + 1],
          amount |-> TIER_CONFIG[TIER_ORDER[idx + 1]].min_deposit]
    ELSE [next |-> current_tier, amount |-> 0]

VARIABLES
    balance,    \* CustomUser.balance
    profit,     \* CustomUser.profit
    loyalty,    \* CustomUser.current_loyalty_status, next_loyalty_status, next_amount_to_upgrade
    txn,        \* Transaction.status and Transaction.amount of the rows that exist
    copying,    \* UserTraderCopy of each account for the trader
    trades,     \* UserCopyTraderHistory rows, oldest first
    notified,   \* Notification rows created by the latest admin action
    applied,    \* history: net change made to the owner's balance on behalf of a transaction
    opening,    \* history: balance of each account before the first admin action
    last,       \* history: the latest admin action and the row it found
    ops,        \* history: number of admin actions so far, counted up to MaxOps
    req,        \* the request each admin has in progress, with the rows it has read
    sync,       \* the run of sync_loyalty_tiers in progress, with its counters
    copiers     \* Trader.copiers

vars == <<balance, profit, loyalty, txn, copying, trades, notified, applied, opening, last, ops,
          req, sync, copiers>>

RECURSIVE SumAmounts(_, _)
SumAmounts(rows, S) ==
    IF S = {} THEN 0
    ELSE LET t == CHOOSE x \in S : TRUE
         IN rows[t].amount + SumAmounts(rows, S \ {t})

\* Sum("amount") over the account's deposits with status completed
TotalCompletedDeposits(rows, u) ==
    SumAmounts(rows, {t \in DOMAIN rows \cap Deposits :
                        TxnUser(t) = u /\ rows[t].status = "completed"})

\* CustomUser.update_loyalty_tier: the stored tier fields follow the completed deposits
update_loyalty_tier(rows, u) ==
    LET tier == determine_tier(TotalCompletedDeposits(rows, u))
        info == get_next_tier_info(tier)
    IN [current_loyalty_status |-> tier,
        next_loyalty_status |-> info.next,
        next_amount_to_upgrade |-> info.amount]

\* the balances the model follows
InRange(b) == \A u \in Users : b[u] >= 0 - MaxBalance /\ b[u] <= MaxBalance

\* the admin-action count, which stops at MaxOps
Counted(n) == IF n < MaxOps THEN n + 1 ELSE n

\* admins who submit forms at the same time
Admins == {"a1", "a2"}

\* a CustomUser row as a request holds it in memory
NoUser == [balance |-> 0, profit |-> 0, loyalty |-> "none"]

\* no request in progress
Idle == [pc |-> "idle", op |-> "none", t |-> "none", status |-> "none", amount |-> 0,
         percent |-> 0, row |-> [status |-> "none", amount |-> 0],
         who |-> "none", user |-> NoUser, todo |-> {},
         dbal |-> [u \in Users |-> 0], dprof |-> [u \in Users |-> 0]]

\* no run of sync_loyalty_tiers yet
NoSync == [pc |-> "idle", apply |-> FALSE, todo |-> <<>>, updated |-> 0, already_correct |-> 0,
           errors |-> {}, runs |-> 0, earlier |-> "none", earlier_errors |-> {},
           earlier_updated |-> 0,
           before |-> <<>>, all_ids |-> <<>>, chunk_start |-> 0, visited |-> <<>>]

NoAction == [op |-> "none", id |-> "none", status |-> "none", amount |-> 0]

(***************************************************************************)
(* The state before the first admin action: one account holds a pending    *)
(* deposit request or a pending withdrawal request, whose amount has       *)
(* already left the balance.                                               *)
(***************************************************************************)
Init ==
    /\ \E b \in 0..MaxOpening : balance = [u \in Users |-> IF u = "u1" THEN b ELSE 0]
    /\ profit = [u \in Users |-> 0]
    /\ loyalty = [u \in Users |-> update_loyalty_tier(<<>>, u)]
    /\ \E t \in InitialTxns : txn \in [{t} -> [status : {"pending"}, amount : Amounts]]
    /\ \E act \in [Users -> BOOLEAN] :
         copying = [u \in Users |-> [is_actively_copying |-> act[u],
                                     cancel_requested |-> FALSE,
                                     stopped_copying_at |-> "none",
                                     initial_investment_amount |-> InvestmentOf(u),
                                     minimum_threshold_at_start |-> InvestmentOf(u),
                                     trader_min_account_threshold |-> InvestmentOf("u1")]]
    /\ trades = <<>>
    /\ notified = {}
    /\ applied = [t \in DOMAIN txn |-> IF t \in Withdrawals THEN 0 - txn[t].amount ELSE 0]
    /\ opening = balance
    /\ last = NoAction
    /\ ops = 0
    /\ req = [a \in Admins |-> Idle]
    /\ sync = NoSync
    /\ copiers = Cardinality({u \in Users : copying[u].is_actively_copying})

\* deposit_detail recomputing the tier before the deposit's status is saved
DepositDetailTierFirst(t, status) ==
    LET u == TxnUser(t) IN
    /\ t \in DOMAIN txn \cap Deposits
    /\ txn' = [txn EXCEPT ![t].status = status]
    /\ IF status = "completed"
       THEN /\ balance' = [balance EXCEPT ![u] = @ + txn[t].amount]
            /\ applied' = [applied EXCEPT ![t] = @ + txn[t].amount]
            /\ loyalty' = [loyalty EXCEPT ![u] = update_loyalty_tier(txn, u)]
            /\ notified' = {<<u, "deposit">>}
       ELSE /\ notified' = {<<u, "alert">>}
            /\ UNCHANGED <<balance, applied, loyalty>>
    /\ last' = [op |-> "deposit_detail", id |-> t,
                status |-> txn[t].status, amount |-> txn[t].amount]
    /\ ops' = Counted(ops)
    /\ UNCHANGED <<profit, copying, trades, opening, req, sync, copiers>>
    /\ InRange(balance')

(***************************************************************************)
(* deposit_detail: approve or reject a deposit.                            *)
(***************************************************************************)
DepositDetail(t, status) ==
    LET u == TxnUser(t) IN
    /\ t \in DOMAIN txn \cap Deposits
    /\ txn' = [txn EXCEPT ![t].status = status]
    /\ IF status = "completed"
       THEN /\ balance' = [balance EXCEPT ![u] = @ + txn[t].amount]
            /\ applied' = [applied EXCEPT ![t] = @ + txn[t].amount]
            /\ loyalty' = [loyalty EXCEPT ![u] = update_loyalty_tier(txn', u)]
            /\ notified' = {<<u, "deposit">>}
       ELSE /\ notified' = {<<u, "alert">>}
            /\ UNCHANGED <<balance, applied, loyalty>>
    /\ last' = [op |-> "deposit_detail", id |-> t,
                status |-> txn[t].status, amount |-> txn[t].amount]
    /\ ops' = Counted(ops)
    /\ UNCHANGED <<profit, copying, trades, opening, req, sync, copiers>>
    /\ InRange(balance')

\* edit_deposit crediting the amount the deposit had before the edit
EditDepositDeltaOldAmount(old_status, old_amount, status, amount) ==
    IF old_status # status
    THEN IF old_status = "completed" /\ status # "completed" THEN 0 - old_amount
         ELSE IF old_status # "completed" /\ status = "completed" THEN old_amount
         ELSE 0
    ELSE IF status = "completed" /\ old_amount # amount THEN amount - old_amount
    ELSE 0

\* edit_deposit crediting a deposit again whenever it is saved as completed
EditDepositDeltaRecredit(old_status, old_amount, status, amount) ==
    IF old_status # status
    THEN IF old_status = "completed" /\ status # "completed" THEN 0 - old_amount
         ELSE IF old_status # "completed" /\ status = "completed" THEN amount
         ELSE 0
    ELSE IF status = "completed" THEN amount
    ELSE 0

\* edit_deposit leaving the credit in place when a deposit stops being completed
EditDepositDeltaNoReversal(old_status, old_amount, status, amount) ==
    IF old_status # status
    THEN IF old_status # "completed" /\ status = "completed" THEN amount
         ELSE 0
    ELSE IF status = "completed" /\ old_amount # amount THEN amount - old_amount
    ELSE 0

\* the balance adjustment of edit_deposit
EditDepositDelta(old_status, old_amount, status, amount) ==
    IF old_status # status
    THEN IF old_status = "completed" /\ status # "completed" THEN 0 - old_amount
         ELSE IF old_status # "completed" /\ status = "completed" THEN amount
         ELSE 0
    ELSE IF status = "completed" /\ old_amount # amount THEN amount - old_amount
    ELSE 0

(***************************************************************************)
(* edit_deposit: save the form's status and amount, then adjust balance.   *)
(***************************************************************************)
EditDeposit(t, status, amount) ==
    LET u == TxnUser(t)
        old_status == txn[t].status
        old_amount == txn[t].amount
        delta == EditDepositDelta(old_status, old_amount, status, amount)
    IN
    /\ t \in DOMAIN txn \cap Deposits
    /\ txn' = [txn EXCEPT ![t] = [status |-> status, amount |-> amount]]
    /\ balance' = [balance EXCEPT ![u] = @ + delta]
    /\ applied' = [applied EXCEPT ![t] = @ + delta]
    /\ loyalty' = IF old_status # "completed" /\ status = "completed"
                  THEN [loyalty EXCEPT ![u] = update_loyalty_tier(txn', u)]
                  ELSE loyalty
    /\ notified' = {<<u, "deposit">>}
    /\ last' = [op |-> "edit_deposit", id |-> t, status |-> old_status, amount |-> old_amount]
    /\ ops' = Counted(ops)
    /\ UNCHANGED <<profit, copying, trades, opening, req, sync, copiers>>
    /\ InRange(balance')

\* edit_deposit submitted with the amount the deposit already has
EditDepositStatus(t, status) ==
    /\ t \in DOMAIN txn \cap Deposits
    /\ EditDeposit(t, status, txn[t].amount)

(***************************************************************************)
(* withdrawal_detail: approve or reject a withdrawal.                      *)
(***************************************************************************)
WithdrawalDetail(t, status) ==
    LET u == TxnUser(t) IN
    /\ t \in DOMAIN txn \cap Withdrawals
    /\ txn' = [txn EXCEPT ![t].status = status]
    /\ IF status = "completed"
       THEN /\ notified' = {<<u, "withdrawal">>}
            /\ UNCHANGED <<balance, applied>>
       ELSE /\ balance' = [balance EXCEPT ![u] = @ + txn[t].amount]
            /\ applied' = [applied EXCEPT ![t] = @ + txn[t].amount]
            /\ notified' = {<<u, "alert">>}
    /\ last' = [op |-> "withdrawal_detail", id |-> t,
                status |-> txn[t].status, amount |-> txn[t].amount]
    /\ ops' = Counted(ops)
    /\ UNCHANGED <<profit, loyalty, copying, trades, opening, req, sync, copiers>>
    /\ InRange(balance')

\* the balance adjustment of edit_withdrawal
EditWithdrawalDelta(old_status, old_amount, status, amount) ==
    IF old_status # status
    THEN IF old_status = "failed" /\ status \in {"completed", "pending"} THEN 0 - amount
         ELSE IF old_status \in {"completed", "pending"} /\ status = "failed" THEN old_amount
         ELSE 0
    ELSE IF status = "completed" /\ old_amount # amount THEN 0 - (amount - old_amount)
    ELSE 0

(***************************************************************************)
(* edit_withdrawal: save the form's status and amount, then adjust balance.*)
(***************************************************************************)
EditWithdrawal(t, status, amount) ==
    LET u == TxnUser(t)
        old_status == txn[t].status
        old_amount == txn[t].amount
        delta == EditWithdrawalDelta(old_status, old_amount, status, amount)
    IN
    /\ t \in DOMAIN txn \cap Withdrawals
    /\ txn' = [txn EXCEPT ![t] = [status |-> status, amount |-> amount]]
    /\ balance' = [balance EXCEPT ![u] = @ + delta]
    /\ applied' = [applied EXCEPT ![t] = @ + delta]
    /\ notified' = {<<u, "withdrawal">>}
    /\ last' = [op |-> "edit_withdrawal", id |-> t, status |-> old_status, amount |-> old_amount]
    /\ ops' = Counted(ops)
    /\ UNCHANGED <<profit, loyalty, copying, trades, opening, req, sync, copiers>>
    /\ InRange(balance')

\* UserCopyTraderHistory.calculate_user_profit_loss: a trader's trade is measured on
\* its amount, a trade recorded on one account on its investment_amount
calculate_user_profit_loss(trade) ==
    IF trade.user = "none"
    THEN (trade.amount * trade.profit_loss_percent) \div 100
    ELSE (trade.investment_amount * trade.profit_loss_percent) \div 100

\* UserCopyTraderHistory.objects.create(trader=trader, ...): a trade of the trader
TraderTrade(amount, profit_loss_percent, status) ==
    [user |-> "none", amount |-> amount, investment_amount |-> 0,
     profit_loss_percent |-> profit_loss_percent, status |-> status]

\* add_copy_trade taking only the first active relation of the trader
copying_users_first ==
    LET active == {u \in Users : copying[u].is_actively_copying}
    IN IF active = {} THEN {} ELSE {CHOOSE u \in active : TRUE}

\* add_copy_trade reaching every relation of the trader, active or not
copying_users_any_state == Users

\* UserTraderCopy.objects.filter(trader=trader, is_actively_copying=True)
copying_users == {u \in Users : copying[u].is_actively_copying}

\* add_copy_trade taking each copier's own stake as the basis of the result
user_pl_own_stake(u, copy_trade) ==
    (copying[u].initial_investment_amount * copy_trade.profit_loss_percent) \div 100

\* user_pl = copy_trade.calculate_user_profit_loss(), evaluated for copier u
user_pl(u, copy_trade) == calculate_user_profit_loss(copy_trade)

\* the profit add_copy_trade stores for a copier whose row held old_profit
FanOutProfit(old_profit, status, profit_loss_percent, pl) ==
    IF status = "closed" /\ profit_loss_percent # 0 /\ pl # 0
    THEN old_profit + pl
    ELSE old_profit

\* the balance add_copy_trade stores for a copier whose row held old_balance
FanOutBalance(old_balance, status, profit_loss_percent, pl) ==
    IF status = "closed" /\ profit_loss_percent # 0
    THEN IF pl > 0 THEN old_balance + pl
         ELSE IF pl < 0 THEN Max(0, old_balance + pl)
         ELSE old_balance
    ELSE old_balance

(***************************************************************************)
(* add_copy_trade: record one trade of the trader and apply it to every    *)
(* account that is actively copying the trader.                            *)
(***************************************************************************)
AddCopyTrade(amount, profit_loss_percent, status) ==
    LET copy_trade == TraderTrade(amount, profit_loss_percent, status)
    IN
    /\ Len(trades) < MaxTrades
    /\ trades' = Append(trades, copy_trade)
    /\ profit' = [u \in Users |->
                    IF u \in copying_users
                    THEN FanOutProfit(profit[u], status, profit_loss_percent,
                                      user_pl(u, copy_trade))
                    ELSE profit[u]]
    /\ balance' = [u \in Users |->
                    IF u \in copying_users
                    THEN FanOutBalance(balance[u], status, profit_loss_percent,
                                       user_pl(u, copy_trade))
                    ELSE balance[u]]
    /\ notified' = IF status = "closed"
                   THEN {<<u, "trade">> : u \in copying_users}
                   ELSE {}
    /\ last' = [op |-> "add_copy_trade", id |-> "trader", status |-> status, amount |-> amount]
    /\ ops' = Counted(ops)
    /\ UNCHANGED <<loyalty, txn, copying, applied, opening, req, sync, copiers>>
    /\ InRange(balance')

\* edit_copy_trade applying a trade to the copiers when it is edited from open to closed
EditCopyTradeRefanout(i, amount, profit_loss_percent, status) ==
    LET old == trades[i]
        trade == [old EXCEPT !.amount = amount,
                             !.profit_loss_percent = profit_loss_percent,
                             !.status = status]
        fires == old.status = "open" /\ status = "closed"
        pl == calculate_user_profit_loss(trade)
    IN
    /\ i \in 1..Len(trades)
    /\ trades' = [trades EXCEPT ![i] = trade]
    /\ profit' = [u \in Users |->
                    IF fires /\ u \in copying_users
                    THEN FanOutProfit(profit[u], status, profit_loss_percent, pl)
                    ELSE profit[u]]
    /\ balance' = [u \in Users |->
                    IF fires /\ u \in copying_users
                    THEN FanOutBalance(balance[u], status, profit_loss_percent, pl)
                    ELSE balance[u]]
    /\ notified' = {}
    /\ last' = [op |-> "edit_copy_trade", id |-> "trade",
                status |-> old.status, amount |-> old.amount]
    /\ ops' = Counted(ops)
    /\ UNCHANGED <<loyalty, txn, copying, applied, opening, req, sync, copiers>>
    /\ InRange(balance')

(***************************************************************************)
(* edit_copy_trade: overwrite the fields of one recorded trade.            *)
(***************************************************************************)
EditCopyTrade(i, amount, profit_loss_percent, status) ==
    /\ i \in 1..Len(trades)
    /\ trades' = [trades EXCEPT ![i] = [@ EXCEPT !.amount = amount,
                                                 !.profit_loss_percent = profit_loss_percent,
                                                 !.status = status]]
    /\ notified' = {}
    /\ last' = [op |-> "edit_copy_trade", id |-> "trade",
                status |-> trades[i].status, amount |-> trades[i].amount]
    /\ ops' = Counted(ops)
    /\ UNCHANGED <<balance, profit, loyalty, txn, copying, applied, opening, req, sync, copiers>>

(***************************************************************************)
(* bulk_edit_copy_trade, step apply: one update() of the selected trades.  *)
(***************************************************************************)
BulkEditCopyTrade(selected_ids, amount, profit_loss_percent, status) ==
    /\ selected_ids # {}
    /\ selected_ids \subseteq 1..Len(trades)
    /\ trades' = [i \in 1..Len(trades) |->
                    IF i \in selected_ids
                    THEN [trades[i] EXCEPT !.amount = amount,
                                           !.profit_loss_percent = profit_loss_percent,
                                           !.status = status]
                    ELSE trades[i]]
    /\ notified' = {}
    /\ last' = [op |-> "bulk_edit_copy_trade", id |-> "trade", status |-> status,
                amount |-> amount]
    /\ ops' = Counted(ops)
    /\ UNCHANGED <<balance, profit, loyalty, txn, copying, applied, opening, req, sync, copiers>>

(***************************************************************************)
(* delete_copy_trade: remove one recorded trade.                           *)
(***************************************************************************)
DeleteCopyTrade(i) ==
    /\ i \in 1..Len(trades)
    /\ trades' = [k \in 1..(Len(trades) - 1) |-> IF k < i THEN trades[k] ELSE trades[k + 1]]
    /\ notified' = {}
    /\ last' = [op |-> "delete_copy_trade", id |-> "trade",
                status |-> trades[i].status, amount |-> trades[i].amount]
    /\ ops' = Counted(ops)
    /\ UNCHANGED <<balance, profit, loyalty, txn, copying, applied, opening, req, sync, copiers>>

\* UserCopyTraderHistory.objects.create(user=viewed_user, trader=None, ...)
UserTrade(u, amount, investment_amount, profit_loss_percent, status) ==
    [user |-> u, amount |-> amount, investment_amount |-> investment_amount,
     profit_loss_percent |-> profit_loss_percent, status |-> status]

\* add_user_trade crediting a trade whatever its status
DirectProfitAnyStatus(old_profit, status, pl) ==
    IF pl # 0 THEN old_profit + pl ELSE old_profit

\* the profit add_user_trade stores for an account whose row held old_profit
DirectProfit(old_profit, status, pl) ==
    IF status = "closed" /\ pl # 0 THEN old_profit + pl ELSE old_profit

\* the balance add_user_trade stores for an account whose row held old_balance
DirectBalance(old_balance, status, pl) ==
    IF status = "closed" /\ pl # 0
    THEN IF pl > 0 THEN old_balance + pl ELSE Max(0, old_balance + pl)
    ELSE old_balance

(***************************************************************************)
(* add_user_trade: record one trade on one account.                        *)
(***************************************************************************)
AddUserTrade(u, amount, investment_amount, profit_loss_percent, status) ==
    LET trade == UserTrade(u, amount, investment_amount, profit_loss_percent, status)
        pl == calculate_user_profit_loss(trade)
    IN
    /\ Len(trades) < MaxTrades
    /\ trades' = Append(trades, trade)
    /\ profit' = [profit EXCEPT ![u] = DirectProfit(@, status, pl)]
    /\ balance' = [balance EXCEPT ![u] = DirectBalance(@, status, pl)]
    /\ notified' = {}
    /\ last' = [op |-> "add_user_trade", id |-> u, status |-> status, amount |-> amount]
    /\ ops' = Counted(ops)
    /\ UNCHANGED <<loyalty, txn, copying, applied, opening, req, sync, copiers>>
    /\ InRange(balance')

\* the selected accounts in the order the query returns them
SelectedUsers(user_ids) == SelectSeq(UserOrder, LAMBDA u : u \in user_ids)

\* the trade rows bulk_add_user_trade creates, one per selected account
BulkTrades(user_ids, amount, investment_amount, profit_loss_percent, status) ==
    LET us == SelectedUsers(user_ids)
    IN [k \in 1..Len(us) |->
          UserTrade(us[k], amount, investment_amount, profit_loss_percent, status)]

(***************************************************************************)
(* bulk_add_user_trade, stage add_trade: the same trade on every selected  *)
(* account.                                                                *)
(***************************************************************************)
BulkAddUserTrade(user_ids, amount, investment_amount, profit_loss_percent, status) ==
    /\ user_ids \subseteq Users
    /\ Len(trades) + Cardinality(user_ids) <= MaxTrades
    /\ trades' = trades \o BulkTrades(user_ids, amount, investment_amount,
                                       profit_loss_percent, status)
    /\ profit' = [u \in Users |->
                    IF u \in user_ids
                    THEN DirectProfit(profit[u], status,
                                      calculate_user_profit_loss(
                                          UserTrade(u, amount, investment_amount,
                                                    profit_loss_percent, status)))
                    ELSE profit[u]]
    /\ balance' = [u \in Users |->
                    IF u \in user_ids
                    THEN DirectBalance(balance[u], status,
                                       calculate_user_profit_loss(
                                           UserTrade(u, amount, investment_amount,
                                                     profit_loss_percent, status)))
                    ELSE balance[u]]
    /\ notified' = {}
    /\ last' = [op |-> "bulk_add_user_trade", id |-> "users", status |-> status,
                amount |-> amount]
    /\ ops' = Counted(ops)
    /\ UNCHANGED <<loyalty, txn, copying, applied, opening, req, sync, copiers>>
    /\ InRange(balance')

(***************************************************************************)
(* unlink_copier: an admin ends the relation of an account with the trader.*)
(***************************************************************************)
UnlinkCopier(u) ==
    /\ copying' = [copying EXCEPT ![u].is_actively_copying = FALSE,
                                  ![u].stopped_copying_at = "now"]
    /\ copiers' = IF copiers > 0 THEN copiers - 1 ELSE copiers
    /\ notified' = {<<u, "alert">>}
    /\ last' = [op |-> "unlink_copier", id |-> u, status |-> "none", amount |-> 0]
    /\ ops' = Counted(ops)
    /\ UNCHANGED <<balance, profit, loyalty, txn, trades, applied, opening, req, sync>>

(***************************************************************************)
(* handle_cancel_request: an admin accepts or rejects an account's request *)
(* to stop copying.                                                        *)
(***************************************************************************)
HandleCancelRequest(u, action) ==
    /\ action \in {"accept", "reject"}
    /\ copying[u].cancel_requested
    /\ IF action = "accept"
       THEN /\ copying' = [copying EXCEPT ![u].is_actively_copying = FALSE,
                                          ![u].stopped_copying_at = "now",
                                          ![u].cancel_requested = FALSE]
            /\ copiers' = IF copiers > 0 THEN copiers - 1 ELSE copiers
       ELSE /\ copying' = [copying EXCEPT ![u].cancel_requested = FALSE]
            /\ UNCHANGED copiers
    /\ notified' = {<<u, "alert">>}
    /\ last' = [op |-> "handle_cancel_request", id |-> u, status |-> action, amount |-> 0]
    /\ ops' = Counted(ops)
    /\ UNCHANGED <<balance, profit, loyalty, txn, trades, applied, opening, req, sync>>

\* the account asks to stop copying the trader (the copy-trading API)
RequestCancel(u) ==
    /\ copying[u].is_actively_copying
    /\ ~copying[u].cancel_requested
    /\ copying' = [copying EXCEPT ![u].cancel_requested = TRUE]
    /\ notified' = {}
    /\ last' = [op |-> "request_cancel", id |-> u, status |-> "none", amount |-> 0]
    /\ ops' = Counted(ops)
    /\ UNCHANGED <<balance, profit, loyalty, txn, trades, applied, opening, req, sync,
                   copiers>>

\* the account starts copying the trader (the copy-trading API)
StartCopying(u) ==
    /\ ~copying[u].is_actively_copying
    /\ copying' = [copying EXCEPT ![u].is_actively_copying = TRUE,
                                  ![u].stopped_copying_at = "none"]
    /\ copiers' = copiers + 1
    /\ notified' = {}
    /\ last' = [op |-> "start_copying", id |-> u, status |-> "none", amount |-> 0]
    /\ ops' = Counted(ops)
    /\ UNCHANGED <<balance, profit, loyalty, txn, trades, applied, opening, req, sync>>

(***************************************************************************)
(* The handlers from the POST to the response: the form is validated, and  *)
(* the handler's statements run only inside `if form.is_valid():`.         *)
(***************************************************************************)
FormOps == {"deposit_detail", "withdrawal_detail", "edit_deposit", "edit_withdrawal",
            "add_copy_trade", "add_user_trade"}

\* the choices of the status field of each handler's form
FormChoices(op) ==
    CASE op \in {"deposit_detail", "withdrawal_detail"} -> ApproveChoices
      [] op \in {"edit_deposit", "edit_withdrawal"} -> Statuses
      [] op \in {"add_copy_trade", "add_user_trade"} -> TradeStatuses

\* status values a POST to a handler carries in the model: the choices of its form and
\* one that the form does not offer
PostedStatuses(op) == FormChoices(op) \cup {"bogus"}

\* the amounts a POST carries in the model: an approval form has no amount field, and
\* an amount that does not parse has no value
PostedAmounts(op, amount_ok) ==
    IF op \in {"deposit_detail", "withdrawal_detail"} \/ ~amount_ok
    THEN {MaxAmount} ELSE Amounts

\* a validation that accepts whatever was posted
is_valid_always(op, status, amount_ok) == TRUE

\* form.is_valid(): the status is one of the choices and the DecimalField amounts parse;
\* the approval forms have no amount
is_valid(op, status, amount_ok) ==
    /\ status \in FormChoices(op)
    /\ op \in {"deposit_detail", "withdrawal_detail"} \/ amount_ok

\* the statements inside `if form.is_valid():`
FormBody(op, status, amount) ==
    CASE op = "deposit_detail" -> \E t \in Deposits : DepositDetail(t, status)
      [] op = "withdrawal_detail" -> \E t \in Withdrawals : WithdrawalDetail(t, status)
      [] op = "edit_deposit" -> \E t \in Deposits : EditDeposit(t, status, amount)
      [] op = "edit_withdrawal" -> \E t \in Withdrawals : EditWithdrawal(t, status, amount)
      [] op = "add_copy_trade" -> AddCopyTrade(100 * amount, MaxPercent, status)
      [] op = "add_user_trade" ->
           AddUserTrade("u1", 100 * amount, 100 * amount, MaxPercent, status)

\* the form is rendered again with its errors
FormRejected(op, status) ==
    /\ last' = [op |-> op, id |-> "invalid", status |-> status, amount |-> 0]
    /\ ops' = Counted(ops)
    /\ UNCHANGED <<balance, profit, loyalty, txn, copying, trades, notified, applied,
                   opening, req, sync, copiers>>

\* a POST to one of the handlers
PostForm(op, status, amount, amount_ok) ==
    IF is_valid(op, status, amount_ok)
    THEN FormBody(op, status, amount)
    ELSE FormRejected(op, status)

(***************************************************************************)
(* fix_investment_amounts: backfill initial_investment_amount of the copy   *)
(* relations that hold 0, or only report.                                  *)
(***************************************************************************)
\* the backfill looking at the trader's threshold before the relation's own
new_amount_trader_first(record) ==
    IF record.trader_min_account_threshold > 0 THEN record.trader_min_account_threshold
    ELSE IF record.minimum_threshold_at_start > 0 THEN record.minimum_threshold_at_start
    ELSE 0

\* new_amount of a record of zero_records; 0 stands for the SKIP branch
new_amount(record) ==
    IF record.minimum_threshold_at_start > 0 THEN record.minimum_threshold_at_start
    ELSE IF record.trader_min_account_threshold > 0 THEN record.trader_min_account_threshold
    ELSE 0

FixInvestmentAmounts(apply) ==
    LET zero_records == {u \in Users : copying[u].initial_investment_amount = 0}
        total == Cardinality(zero_records)
        fixable == {u \in zero_records : new_amount(copying[u]) > 0}
    IN
    /\ copying' = IF apply
                  THEN [u \in Users |->
                          IF u \in fixable
                          THEN [copying[u] EXCEPT
                                  !.initial_investment_amount = new_amount(copying[u])]
                          ELSE copying[u]]
                  ELSE copying
    /\ last' = [op |-> "fix_investment_amounts", id |-> "all",
                status |-> IF apply THEN "apply" ELSE "dry", amount |-> 0,
                total |-> total, updated |-> Cardinality(fixable),
                skipped |-> Cardinality(zero_records \ fixable)]
    /\ ops' = Counted(ops)
    /\ UNCHANGED <<balance, profit, loyalty, txn, trades, notified, applied, opening, req,
                   sync, copiers>>

(***************************************************************************)
(* sync_loyalty_tiers: bring every account's stored tier fields into line  *)
(* with its completed deposits, or only report, one account per step.      *)
(***************************************************************************)
\* correct_tier, next_tier and next_amount as handle computes them for one account
CorrectFields(rows, u) ==
    LET total_deposits == TotalCompletedDeposits(rows, u)
        correct_tier == determine_tier(total_deposits)
        info == get_next_tier_info(correct_tier)
    IN [current_loyalty_status |-> correct_tier,
        next_loyalty_status |-> info.next,
        next_amount_to_upgrade |-> info.amount]

\* the comparison finding every account in need of an update
needs_update_always(stored, correct) == TRUE

\* needs_update
needs_update(stored, correct) ==
    \/ stored.current_loyalty_status # correct.current_loyalty_status
    \/ stored.next_loyalty_status # correct.next_loyalty_status
    \/ stored.next_amount_to_upgrade # correct.next_amount_to_upgrade

\* the run saving the fields whether or not --apply was given
SyncWriteAlways(apply, stored, correct) == correct

\* the run saving the tier and leaving the two next-tier fields
SyncWriteTierOnly(apply, stored, correct) ==
    IF apply
    THEN [stored EXCEPT !.current_loyalty_status = correct.current_loyalty_status]
    ELSE stored

\* the three fields of an account that needs an update, after its turn
SyncWrite(apply, stored, correct) == IF apply THEN correct ELSE stored

\* CustomUser.objects.order_by("id").values_list("id", flat=True)
AllIds == SelectSeq(AccountOrder, LAMBDA a : a \in DOMAIN loyalty)

\* the slice starting one id late in every chunk after the first
ChunkSliceLate(all_ids, chunk_start) ==
    LET to == IF chunk_start + CHUNK_SIZE < Len(all_ids)
              THEN chunk_start + CHUNK_SIZE ELSE Len(all_ids)
    IN SubSeq(all_ids, IF chunk_start = 0 THEN 1 ELSE chunk_start + 2, to)

\* all_ids[chunk_start: chunk_start + CHUNK_SIZE]
ChunkSlice(all_ids, chunk_start) ==
    LET to == IF chunk_start + CHUNK_SIZE < Len(all_ids)
              THEN chunk_start + CHUNK_SIZE ELSE Len(all_ids)
    IN SubSeq(all_ids, chunk_start + 1, to)

\* handle begins: the ids of all accounts are fetched and the counters start at 0
SyncStart(apply) ==
    /\ sync.pc \in {"idle", "done"}
    /\ sync.runs < MaxRuns
    /\ sync' = [sync EXCEPT !.pc = "running", !.apply = apply, !.todo = <<>>,
                            !.all_ids = AllIds, !.chunk_start = 0, !.visited = <<>>,
                            !.updated = 0, !.already_correct = 0, !.errors = {},
                            !.earlier = IF sync.runs = 0 THEN "none"
                                        ELSE IF sync.apply THEN "apply" ELSE "dry",
                            !.earlier_errors = sync.errors,
                            !.earlier_updated = sync.updated,
                            !.before = loyalty]
    /\ last' = [op |-> "sync_start", id |-> "all", status |-> "none", amount |-> 0]
    /\ UNCHANGED <<balance, profit, loyalty, txn, copying, trades, notified, applied,
                   opening, ops, req, copiers>>

\* the next turn of the loop over range(0, total_users, CHUNK_SIZE): the accounts of
\* the chunk are fetched in id order
SyncChunk ==
    /\ sync.pc = "running"
    /\ sync.todo = <<>>
    /\ sync.chunk_start < Len(sync.all_ids)
    /\ sync' = [sync EXCEPT
                  !.todo = SelectSeq(ChunkSlice(sync.all_ids, sync.chunk_start),
                                     LAMBDA a : a \in DOMAIN loyalty),
                  !.chunk_start = @ + CHUNK_SIZE]
    /\ last' = [op |-> "sync_chunk", id |-> "all", status |-> "none", amount |-> 0]
    /\ UNCHANGED <<balance, profit, loyalty, txn, copying, trades, notified, applied,
                   opening, ops, req, copiers>>

\* the statements of the try block that reach outside the process, besides no failure:
\* the deposit query, user.save, and the write of the UPDATED / WOULD UPDATE line
RaisePoints == {"none", "query", "save", "report"}

\* one turn of the loop over the accounts; raises tells which statement of the try block
\* raised, which the except clause records
SyncUser(raises) ==
    LET u == Head(sync.todo)
        correct == CorrectFields(txn, u)
        stale == needs_update(loyalty[u], correct)
    IN
    /\ sync.pc = "running"
    /\ sync.todo # <<>>
    /\ raises = "save" => (stale /\ sync.apply)
    /\ raises = "report" => stale
    /\ IF raises = "query"
       THEN /\ sync' = [sync EXCEPT !.todo = Tail(@), !.visited = Append(@, u),
                                    !.errors = @ \cup {u}]
            /\ UNCHANGED loyalty
       ELSE IF ~stale
       THEN /\ sync' = [sync EXCEPT !.todo = Tail(@), !.visited = Append(@, u),
                                    !.already_correct = @ + 1]
            /\ UNCHANGED loyalty
       ELSE IF raises = "save"
       THEN /\ sync' = [sync EXCEPT !.todo = Tail(@), !.visited = Append(@, u),
                                    !.errors = @ \cup {u}]
            /\ UNCHANGED loyalty
       ELSE /\ sync' = [sync EXCEPT !.todo = Tail(@), !.visited = Append(@, u),
                                    !.updated = @ + 1,
                                    !.errors = IF raises = "report" THEN @ \cup {u} ELSE @]
            /\ loyalty' = [loyalty EXCEPT ![u] = SyncWrite(sync.apply, @, correct)]
    /\ last' = [op |-> "sync_user", id |-> u, status |-> raises, amount |-> 0]
    /\ UNCHANGED <<balance, profit, txn, copying, trades, notified, applied,
                   opening, ops, req, copiers>>

\* the summary at the end of handle
SyncSummary ==
    /\ sync.pc = "running"
    /\ sync.todo = <<>>
    /\ sync.chunk_start >= Len(sync.all_ids)
    /\ sync' = [sync EXCEPT !.pc = "done", !.runs = @ + 1]
    /\ last' = [op |-> "sync_summary", id |-> "all", status |-> "none", amount |-> 0]
    /\ UNCHANGED <<balance, profit, loyalty, txn, copying, trades, notified, applied,
                   opening, ops, req, copiers>>

(***************************************************************************)
(* The same handlers as the database sees them when two admins submit at   *)
(* the same time: each request loads its rows, and saves them later from   *)
(* the copy it holds in memory.                                            *)
(***************************************************************************)
LedgerOps == {"deposit_detail", "edit_deposit", "withdrawal_detail", "edit_withdrawal"}

\* whether the handler reaches a user.save() for this submission
SavesUser(op, row, status, amount) ==
    CASE op = "deposit_detail" -> status = "completed"
      [] op = "edit_deposit" ->
           \/ row.status = "completed" /\ status # "completed"
           \/ row.status # "completed" /\ status = "completed"
           \/ row.status = status /\ status = "completed" /\ row.amount # amount
      [] op = "withdrawal_detail" -> status # "completed"
      [] op = "edit_withdrawal" ->
           \/ row.status = "failed" /\ status \in {"completed", "pending"}
           \/ row.status \in {"completed", "pending"} /\ status = "failed"
           \/ row.status = status /\ status = "completed" /\ row.amount # amount

\* what the handler adds to the balance it read
LedgerDelta(op, row, status, amount) ==
    CASE op = "deposit_detail" -> row.amount
      [] op = "edit_deposit" -> EditDepositDelta(row.status, row.amount, status, amount)
      [] op = "withdrawal_detail" -> row.amount
      [] op = "edit_withdrawal" -> EditWithdrawalDelta(row.status, row.amount, status, amount)

\* get_object_or_404 and form.is_valid(): the request holds the transaction row
Submit(a, op, t, status, amount) ==
    /\ req[a].pc = "idle"
    /\ t \in DOMAIN txn
    /\ op \in (IF t \in Deposits THEN {"deposit_detail", "edit_deposit"}
               ELSE {"withdrawal_detail", "edit_withdrawal"})
    /\ op \in {"deposit_detail", "withdrawal_detail"} =>
         status \in ApproveChoices /\ amount = txn[t].amount
    /\ req' = [req EXCEPT ![a] = [Idle EXCEPT !.pc = "loaded", !.op = op, !.t = t,
                                   !.status = status, !.amount = amount,
                                   !.row = txn[t]]]
    /\ UNCHANGED <<balance, profit, loyalty, txn, copying, trades, notified, applied,
                   opening, last, ops, sync, copiers>>

\* deposit.save() / withdrawal.save(): the row is written from the copy in memory
SaveTransaction(a) ==
    LET r == req[a]
        saves == SavesUser(r.op, r.row, r.status, r.amount)
    IN
    /\ r.pc = "loaded"
    /\ txn' = [txn EXCEPT ![r.t] = [status |-> r.status, amount |-> r.amount]]
    /\ req' = [req EXCEPT ![a].pc = IF saves THEN "saved" ELSE "done"]
    /\ notified' = IF saves THEN notified
                   ELSE {<<TxnUser(r.t),
                           IF r.op \in {"deposit_detail", "withdrawal_detail"} THEN "alert"
                           ELSE IF r.op = "edit_deposit" THEN "deposit" ELSE "withdrawal">>}
    /\ UNCHANGED <<balance, profit, loyalty, copying, trades, applied, opening, last, ops, sync, copiers>>

\* the first use of deposit.user / withdrawal.user fetches the account row
ReadUser(a) ==
    LET r == req[a]
        u == TxnUser(r.t)
    IN
    /\ r.pc = "saved"
    /\ req' = [req EXCEPT ![a].pc = "read", ![a].who = u,
                          ![a].user = [balance |-> balance[u], profit |-> profit[u],
                                       loyalty |-> loyalty[u]]]
    /\ UNCHANGED <<balance, profit, loyalty, txn, copying, trades, notified, applied,
                   opening, last, ops, sync, copiers>>

\* user.save(): every column of the account row is written from the copy in memory
SaveUser(a) ==
    LET r == req[a]
        u == r.who
        delta == LedgerDelta(r.op, r.row, r.status, r.amount)
    IN
    /\ r.pc = "read"
    /\ balance' = [balance EXCEPT ![u] = r.user.balance + delta]
    /\ profit' = [profit EXCEPT ![u] = r.user.profit]
    /\ loyalty' = [loyalty EXCEPT ![u] =
                     IF r.op \in {"deposit_detail", "edit_deposit"} /\ r.status = "completed"
                        /\ (r.op = "edit_deposit" => r.row.status # "completed")
                     THEN update_loyalty_tier(txn, u)
                     ELSE r.user.loyalty]
    /\ notified' = {<<u, IF r.op = "withdrawal_detail" THEN "alert"
                         ELSE IF r.op = "edit_withdrawal" THEN "withdrawal" ELSE "deposit">>}
    /\ req' = [req EXCEPT ![a].pc = "done", ![a].dbal[u] = @ + delta]
    /\ UNCHANGED <<txn, copying, trades, applied, opening, last, ops, sync, copiers>>
    /\ InRange(balance')

\* UserCopyTraderHistory.objects.create and the query for the active copiers
SubmitTrade(a, amount, profit_loss_percent, status) ==
    /\ req[a].pc = "idle"
    /\ Len(trades) < MaxTrades
    /\ trades' = Append(trades, TraderTrade(amount, profit_loss_percent, status))
    /\ req' = [req EXCEPT ![a] = [Idle EXCEPT
                   !.pc = IF copying_users = {} THEN "done" ELSE "fanout",
                   !.op = "add_copy_trade", !.status = status, !.amount = amount,
                   !.percent = profit_loss_percent, !.todo = copying_users]]
    /\ UNCHANGED <<balance, profit, loyalty, txn, copying, notified, applied, opening,
                   last, ops, sync, copiers>>

\* user = copy_relation.user fetches the copier's account row
ReadCopier(a, u) ==
    /\ req[a].pc = "fanout"
    /\ u \in req[a].todo
    /\ req' = [req EXCEPT ![a].pc = "copier", ![a].who = u,
                          ![a].user = [balance |-> balance[u], profit |-> profit[u],
                                       loyalty |-> loyalty[u]]]
    /\ UNCHANGED <<balance, profit, loyalty, txn, copying, trades, notified, applied,
                   opening, last, ops, sync, copiers>>

\* user.save(update_fields=['profit', 'balance']) and the copier's notification
SaveCopier(a) ==
    LET r == req[a]
        u == r.who
        copy_trade == TraderTrade(r.amount, r.percent, r.status)
        pl == user_pl(u, copy_trade)
        new_profit == FanOutProfit(r.user.profit, r.status, r.percent, pl)
        new_balance == FanOutBalance(r.user.balance, r.status, r.percent, pl)
        writes == r.status = "closed" /\ r.percent # 0 /\ pl # 0
        rest == r.todo \ {u}
    IN
    /\ r.pc = "copier"
    /\ IF writes
       THEN /\ profit' = [profit EXCEPT ![u] = new_profit]
            /\ balance' = [balance EXCEPT ![u] = new_balance]
       ELSE UNCHANGED <<profit, balance>>
    /\ notified' = IF r.status = "closed" THEN {<<u, "trade">>} ELSE notified
    /\ req' = [req EXCEPT ![a].pc = IF rest = {} THEN "done" ELSE "fanout",
                          ![a].todo = rest,
                          ![a].dbal[u] = @ + (IF writes THEN pl ELSE 0),
                          ![a].dprof[u] = @ + (new_profit - r.user.profit)]
    /\ UNCHANGED <<loyalty, txn, copying, trades, applied, opening, last, ops, sync, copiers>>
    /\ InRange(balance')

\* a failure that undoes the request: the trade and the copiers already updated
FanOutFailsRollsBack(a) ==
    /\ req[a].pc \in {"fanout", "copier"}
    /\ trades' = SubSeq(trades, 1, Len(trades) - 1)
    /\ balance' = [u \in Users |-> balance[u] - req[a].dbal[u]]
    /\ profit' = [u \in Users |-> profit[u] - req[a].dprof[u]]
    /\ req' = [req EXCEPT ![a].pc = "failed"]
    /\ UNCHANGED <<loyalty, txn, copying, notified, applied, opening, last, ops, sync,
                   copiers>>

\* a statement of the loop over copying_users raises: the view ends with the
\* exception, and every save made so far was committed when it was made
FanOutFails(a) ==
    /\ req[a].pc \in {"fanout", "copier"}
    /\ req' = [req EXCEPT ![a].pc = "failed"]
    /\ UNCHANGED <<balance, profit, loyalty, txn, copying, trades, notified, applied,
                   opening, last, ops, sync, copiers>>

\* the second admin is the one whose form arrives second
Arrives(a) == a = "a1" \/ req["a1"].pc # "idle"

NextConc ==
    \/ \E a \in Admins, op \in LedgerOps, t \in Txns, s \in Statuses, m \in Amounts :
          Arrives(a) /\ Submit(a, op, t, s, m)
    \/ \E a \in Admins : SaveTransaction(a)
    \/ \E a \in Admins : ReadUser(a)
    \/ \E a \in Admins : SaveUser(a)
    \/ \E m \in TradeAmounts, p \in Percents, s \in TradeStatuses :
          SubmitTrade("a1", m, p, s)
    \/ \E a \in Admins, u \in Users : ReadCopier(a, u)
    \/ \E a \in Admins : SaveCopier(a)

NextDeposits ==
    \/ \E t \in Deposits, s \in ApproveChoices : DepositDetail(t, s)
    \/ \E t \in Deposits, s \in Statuses, a \in Amounts : EditDeposit(t, s, a)

NextWithdrawals ==
    \/ \E t \in Withdrawals, s \in ApproveChoices : WithdrawalDetail(t, s)
    \/ \E t \in Withdrawals, s \in Statuses, a \in Amounts : EditWithdrawal(t, s, a)

NextTrades ==
    \E a \in TradeAmounts, p \in Percents, s \in TradeStatuses : AddCopyTrade(a, p, s)

NextStatusEdits ==
    \E t \in Deposits, s \in Statuses : EditDepositStatus(t, s)

NextWithdrawalEdits ==
    \E t \in Withdrawals, s \in Statuses, a \in Amounts : EditWithdrawal(t, s, a)

NextTradeEdits ==
    \/ \E i \in 1..MaxTrades, a \in TradeAmounts, p \in Percents, s \in TradeStatuses :
          EditCopyTrade(i, a, p, s)
    \/ \E ids \in SUBSET (1..MaxTrades), a \in TradeAmounts, p \in Percents,
          s \in TradeStatuses : BulkEditCopyTrade(ids, a, p, s)
    \/ \E i \in 1..MaxTrades : DeleteCopyTrade(i)

NextDirect ==
    \/ \E u \in Users, a \in TradeAmounts, i \in InvestmentAmounts, p \in Percents,
          s \in TradeStatuses : AddUserTrade(u, a, i, p, s)
    \/ \E ids \in SUBSET Users, a \in TradeAmounts, i \in InvestmentAmounts,
          p \in Percents, s \in TradeStatuses : BulkAddUserTrade(ids, a, i, p, s)

NextCopiers ==
    \/ \E u \in Users : UnlinkCopier(u)
    \/ \E u \in Users, action \in {"accept", "reject"} : HandleCancelRequest(u, action)
    \/ \E u \in Users : RequestCancel(u)
    \/ \E u \in Users : StartCopying(u)

Next ==
    \/ ops < MaxOps /\ NextDeposits
    \/ ops < MaxOps /\ NextWithdrawals
    \/ ops < MaxOps /\ NextTrades

\* every admin action, in any order, MaxOps of them
Spec == Init /\ [][Next]_vars
\* the deposit and withdrawal handlers, any number of times
SpecLedger == Init /\ [][NextDeposits \/ NextWithdrawals]_vars
\* edit_deposit submissions that keep the amount
SpecStatusEdits == Init /\ [][NextStatusEdits]_vars
\* edit_withdrawal submissions alone
SpecWithdrawalEdits == Init /\ [][NextWithdrawalEdits]_vars
\* trade recording alone
SpecTrades == Init /\ [][NextTrades]_vars
\* two admins, one request each, their database reads and writes interleaved
SpecConc == Init /\ [][NextConc]_vars

\* trades recorded and then edited or deleted, MaxOps admin actions in all
NextTradeRecords ==
    \/ ops < MaxTrades /\ NextTrades
    \/ ops < MaxTrades /\ NextTradeEdits

\* the state before the first admin action, with one given deposit request open:
\* the trade handlers read no transaction
InitTrading ==
    /\ Init
    /\ DOMAIN txn = {"d1"}
    /\ txn["d1"].amount = MaxAmount
    /\ balance["u1"] = MaxOpening

SpecTradeEdits == InitTrading /\ [][NextTradeRecords]_vars

\* trades recorded for the trader and on single accounts, one admin action fewer
\* than there may be trades
NextRecordings ==
    \/ ops < MaxTrades - 1 /\ NextTrades
    \/ ops < MaxTrades - 1 /\ NextDirect

SpecRecordings == InitTrading /\ [][NextRecordings]_vars

\* accounts start and stop copying while trades are recorded for the trader
NextCopying ==
    \/ ops < MaxOps /\ NextTrades
    \/ ops < MaxOps /\ NextCopiers

SpecCopiers == InitTrading /\ [][NextCopying]_vars

\* withdrawals handled and trades recorded on single accounts, MaxOps admin actions
NextDirectLedger ==
    \/ ops < MaxOps /\ NextWithdrawals
    \/ ops < MaxOps /\ NextDirect

\* the state before the first admin action when the open request is a withdrawal
\* and no account copies the trader
InitWithdrawal ==
    /\ Init
    /\ DOMAIN txn = {"w1"}
    /\ copying_users = {}

SpecDirectLedger == InitWithdrawal /\ [][NextDirectLedger]_vars

\* the state before the first admin action when the account has two deposits, the
\* second one pending or already completed and credited
InitDeposits ==
    /\ balance = [u \in Users |-> 0]
    /\ profit = [u \in Users |-> 0]
    /\ \E s \in {"pending", "completed"}, a1 \in Amounts, a2 \in Amounts :
          txn = [t \in Deposits |-> IF t = "d1" THEN [status |-> "pending", amount |-> a1]
                                    ELSE [status |-> s, amount |-> a2]]
    /\ loyalty = [u \in Users |-> update_loyalty_tier(txn, u)]
    /\ copying = [u \in Users |-> [is_actively_copying |-> FALSE,
                                    cancel_requested |-> FALSE,
                                    stopped_copying_at |-> "none",
                                    initial_investment_amount |-> InvestmentOf(u),
                                     minimum_threshold_at_start |-> InvestmentOf(u),
                                     trader_min_account_threshold |-> InvestmentOf("u1")]]
    /\ trades = <<>>
    /\ notified = {}
    /\ applied = [t \in Deposits |-> IF txn[t].status = "completed" THEN txn[t].amount ELSE 0]
    /\ opening = balance
    /\ last = NoAction
    /\ ops = 0
    /\ req = [a \in Admins |-> Idle]
    /\ sync = NoSync
    /\ copiers = 0

\* the tier fields an account row can hold before a run: those of any tier, or the
\* column defaults of a row whose next-tier fields were never computed
StoredTierFields ==
    {[current_loyalty_status |-> TIER_ORDER[i],
      next_loyalty_status |-> get_next_tier_info(TIER_ORDER[i]).next,
      next_amount_to_upgrade |-> get_next_tier_info(TIER_ORDER[i]).amount] :
        i \in 1..Len(TIER_ORDER)}
    \cup {[current_loyalty_status |-> "iron", next_loyalty_status |-> "iron",
           next_amount_to_upgrade |-> 0]}

\* accounts whose stored tier fields may or may not agree with their deposits
InitSync ==
    /\ balance = [u \in Users |-> 0]
    /\ profit = [u \in Users |-> 0]
    /\ txn \in [Deposits -> [status : {"pending", "completed", "failed"}, amount : Amounts]]
    /\ loyalty \in [Users -> StoredTierFields]
    /\ copying = [u \in Users |-> [is_actively_copying |-> FALSE,
                                    cancel_requested |-> FALSE,
                                    stopped_copying_at |-> "none",
                                    initial_investment_amount |-> InvestmentOf(u),
                                     minimum_threshold_at_start |-> InvestmentOf(u),
                                     trader_min_account_threshold |-> InvestmentOf("u1")]]
    /\ trades = <<>>
    /\ notified = {}
    /\ applied = [t \in Deposits |-> IF txn[t].status = "completed" THEN txn[t].amount ELSE 0]
    /\ opening = balance
    /\ last = NoAction
    /\ ops = 0
    /\ req = [a \in Admins |-> Idle]
    /\ sync = NoSync
    /\ copiers = 0

\* runs of the command, one after another, with and without --apply
NextSync ==
    \/ \E apply \in BOOLEAN : SyncStart(apply)
    \/ SyncChunk
    \/ \E raises \in RaisePoints : SyncUser(raises)
    \/ SyncSummary

SpecSync == InitSync /\ [][NextSync]_vars

\* the first n accounts in id order
FirstAccounts(n) == {AccountOrder[i] : i \in 1..n}

\* a table of zero to MaxAccounts accounts, each storing the fields of the first or of
\* the second tier; only the first account has a deposit, completed or not
InitChunks ==
    /\ balance = [u \in Users |-> 0]
    /\ profit = [u \in Users |-> 0]
    /\ \E s \in {"pending", "completed"} :
          txn = [t \in Deposits |-> IF t = "d1" THEN [status |-> s, amount |-> MaxAmount]
                                    ELSE [status |-> "pending", amount |-> MaxAmount]]
    /\ \E n \in 0..MaxAccounts :
          loyalty \in [FirstAccounts(n) ->
                         {f \in StoredTierFields :
                            f.next_loyalty_status # f.current_loyalty_status}]
    /\ copying = [u \in Users |-> [is_actively_copying |-> FALSE,
                                    cancel_requested |-> FALSE,
                                    stopped_copying_at |-> "none",
                                    initial_investment_amount |-> InvestmentOf(u),
                                     minimum_threshold_at_start |-> InvestmentOf(u),
                                     trader_min_account_threshold |-> InvestmentOf("u1")]]
    /\ trades = <<>>
    /\ notified = {}
    /\ applied = [t \in Deposits |-> IF txn[t].status = "completed" THEN txn[t].amount ELSE 0]
    /\ opening = balance
    /\ last = NoAction
    /\ ops = 0
    /\ req = [a \in Admins |-> Idle]
    /\ sync = NoSync
    /\ copiers = 0

\* one run of the command, with or without --apply
NextChunks == sync.pc # "done" /\ NextSync

\* the command walking tables of every size; the loop of handle runs on without
\* waiting for anything, so a run that has started goes on to its summary
SpecChunks == InitChunks /\ [][NextChunks]_vars /\ WF_vars(NextChunks)

\* MaxTrades POSTs with valid and invalid input to the six handlers
NextForms ==
    /\ ops < MaxTrades
    /\ \E op \in FormOps : \E s \in PostedStatuses(op), ok \in BOOLEAN :
          \E a \in PostedAmounts(op, ok) : PostForm(op, s, a, ok)

\* an account with one pending transaction of MaxAmount
InitForms == Init /\ balance["u1"] = MaxOpening /\ \A t \in DOMAIN txn : txn[t].amount = MaxAmount

SpecForms == InitForms /\ [][NextForms]_vars

\* one add_copy_trade request, copier by copier, which may fail on the way
NextFanOut ==
    \/ \E m \in TradeAmounts, p \in Percents, s \in TradeStatuses :
          SubmitTrade("a1", m, p, s)
    \/ \E u \in Users : ReadCopier("a1", u)
    \/ SaveCopier("a1")
    \/ FanOutFails("a1")

SpecFanOut == InitTrading /\ [][NextFanOut]_vars

\* the thresholds a relation or the trader can hold: none, or a stake of the model
Thresholds == {0} \cup InvestmentAmounts

\* copy relations created with or without their investment amount and thresholds
InitBackfill ==
    /\ balance = [u \in Users |-> 0]
    /\ profit = [u \in Users |-> 0]
    /\ loyalty = [u \in Users |-> update_loyalty_tier(<<>>, u)]
    /\ txn = [t \in {"d1"} |-> [status |-> "pending", amount |-> MaxAmount]]
    /\ \E act \in [Users -> BOOLEAN], zero \in [Users -> BOOLEAN],
          at_start \in [Users -> Thresholds], trader_min \in Thresholds :
         copying = [u \in Users |->
                      [is_actively_copying |-> act[u],
                       cancel_requested |-> FALSE,
                       stopped_copying_at |-> "none",
                       initial_investment_amount |-> IF zero[u] THEN 0 ELSE InvestmentOf(u),
                       minimum_threshold_at_start |-> at_start[u],
                       trader_min_account_threshold |-> trader_min]]
    /\ trades = <<>>
    /\ notified = {}
    /\ applied = [t \in DOMAIN txn |-> 0]
    /\ opening = balance
    /\ last = NoAction
    /\ ops = 0
    /\ req = [a \in Admins |-> Idle]
    /\ sync = NoSync
    /\ copiers = Cardinality({u \in Users : copying[u].is_actively_copying})

\* MaxOps runs of the backfill, with and without --apply
NextBackfill == ops < MaxOps /\ \E apply \in BOOLEAN : FixInvestmentAmounts(apply)

SpecBackfill == InitBackfill /\ [][NextBackfill]_vars

\* deposits approved, rejected and edited on an account with two deposits, MaxOps
\* admin actions in all
NextDepositTiers == ops < MaxOps /\ NextDeposits

SpecDepositTiers == InitDeposits /\ [][NextDepositTiers]_vars

(***************************************************************************)
(* Properties.                                                             *)
(***************************************************************************)
\* the status-effect table of a deposit: its amount while completed, else nothing
DepositEffect(status, amount) == IF status = "completed" THEN amount ELSE 0

\* the trade recorded by the step that has just been taken
LatestTrade == trades[Len(trades)]

\* C1: after any sequence of ledger mutations every account's balance is >= 0.
BalanceNeverNegative == \A u \in Users : balance[u] >= 0

\* C2: whatever approvals, rejections and edits a deposit has been through, the
\* net amount credited for it is its amount while it is completed and 0 otherwise.
DepositCreditedOnce ==
    \A t \in DOMAIN txn \cap Deposits :
        applied[t] = DepositEffect(txn[t].status, txn[t].amount)

ResaveKeepsBalance ==
    [][(/\ last'.op \in {"edit_deposit", "edit_withdrawal"}
        /\ txn'[last'.id] = txn[last'.id]) => balance' = balance]_vars

\* a completed deposit has just been saved again unchanged
ResavedCompletedDeposit ==
    /\ last.op = "edit_deposit"
    /\ txn[last.id].status = "completed"
    /\ last.status = "completed"
    /\ last.amount = txn[last.id].amount
    /\ applied[last.id] = txn[last.id].amount

WithdrawalTableDelta(old_status, old_amount, status, amount) ==
    IF old_status \in {"pending", "completed"} /\ status = "failed" THEN old_amount
    ELSE IF old_status = "failed" /\ status # "failed" THEN 0 - amount
    ELSE IF old_status = "completed" /\ status = "completed" THEN 0 - (amount - old_amount)
    ELSE 0

\* C6: one edit_withdrawal refunds the old amount on entering failed from pending
\* or completed, deducts the new amount on leaving failed for any other status,
\* deducts the difference on an amount change while completed, and otherwise
\* leaves the balance unchanged.
EditWithdrawalFollowsTable ==
    [][last'.op = "edit_withdrawal" =>
         LET t == last'.id
             u == TxnUser(t)
         IN balance'[u] - balance[u] =
              WithdrawalTableDelta(txn[t].status, txn[t].amount,
                                   txn'[t].status, txn'[t].amount)]_vars

\* C7: after any sequence of edit_withdrawal edits the net amount deducted for a
\* withdrawal is its amount while it is pending or completed and nothing while
\* it is failed.
WithdrawalDeductionFollowsState ==
    \A t \in DOMAIN txn \cap Withdrawals :
        /\ txn[t].status \in {"pending", "completed"} => 0 - applied[t] = txn[t].amount
        /\ txn[t].status = "failed" => applied[t] = 0

\* C9: a closed trade of the trader changes the profit of every active copier by
\* the same amount, base amount * percent / 100, whatever the copier's own stake.
FanOutSameProfitLoss ==
    [][(last'.op = "add_copy_trade" /\ LatestTrade'.status = "closed") =>
         \A u \in copying_users :
            100 * (profit'[u] - profit[u]) =
                LatestTrade'.amount * LatestTrade'.profit_loss_percent]_vars

\* a closed trade with a non-zero result has reached two copiers whose stakes differ
TwoCopiersSameProfit ==
    /\ last.op = "add_copy_trade"
    /\ Len(trades) = 1
    /\ trades[1].status = "closed"
    /\ trades[1].profit_loss_percent # 0
    /\ copying_users = Users
    /\ copying["u1"].initial_investment_amount # copying["u2"].initial_investment_amount
    /\ \A u \in Users : 100 * profit[u] = trades[1].amount * trades[1].profit_loss_percent

\* C10: applying a closed trade's pl to a copier makes profit profit + pl, and
\* balance balance + pl if pl > 0 and max(0, balance + pl) if pl <= 0.
FanOutProfitAndFlooredBalance ==
    [][(last'.op = "add_copy_trade" /\ LatestTrade'.status = "closed") =>
         LET pl == (LatestTrade'.amount * LatestTrade'.profit_loss_percent) \div 100
         IN \A u \in copying_users :
              /\ profit'[u] = profit[u] + pl
              /\ balance'[u] = IF pl > 0 THEN balance[u] + pl
                               ELSE Max(0, balance[u] + pl)]_vars

\* the balance b of account u after the request of admin a has been applied to it
\* on its own: a trade loss stops at zero, every other change is added
AppliedAlone(a, u, b) ==
    IF req[a].op = "add_copy_trade" /\ req[a].dbal[u] < 0
    THEN Max(0, b + req[a].dbal[u])
    ELSE b + req[a].dbal[u]

\* C8: two admin operations that run concurrently on the same account lose no
\* update: once both have finished, the account's balance is what the two
\* operations give when applied one after the other, in one order or the other,
\* and its profit holds the profit changes of both.
NoLostUpdate ==
    (\A a \in Admins : req[a].pc = "done") =>
        \A u \in Users :
            /\ \/ balance[u] = AppliedAlone("a2", u, AppliedAlone("a1", u, opening[u]))
               \/ balance[u] = AppliedAlone("a1", u, AppliedAlone("a2", u, opening[u]))
            /\ profit[u] = req["a1"].dprof[u] + req["a2"].dprof[u]

RECURSIVE ClosedTraderTotal(_)
\* the sum of amount * percent / 100 over the first n recorded trades that are closed
ClosedTraderTotal(n) ==
    IF n = 0 THEN 0
    ELSE ClosedTraderTotal(n - 1)
         + (IF trades[n].status = "closed"
            THEN (trades[n].amount * trades[n].profit_loss_percent) \div 100
            ELSE 0)

TradeEditsAreInert ==
    [][last'.op \in {"edit_copy_trade", "bulk_edit_copy_trade", "delete_copy_trade"} =>
         /\ balance' = balance
         /\ profit' = profit
         /\ notified' = {}]_vars

\* a trade recorded open has just been edited to closed with a result, and the
\* copier's profit is still what it was
OpenTradeClosedByEdit ==
    /\ last.op = "edit_copy_trade"
    /\ last.status = "open"
    /\ Len(trades) = 1
    /\ trades[1].status = "closed"
    /\ trades[1].profit_loss_percent # 0
    /\ copying["u1"].is_actively_copying
    /\ profit["u1"] = 0

\* C13: recording a trade with status open, for the trader or on one account,
\* stores the trade and changes no balance and no profit and creates no notification.
OpenTradesAreInert ==
    [][(/\ last'.op \in {"add_copy_trade", "add_user_trade", "bulk_add_user_trade"}
        /\ last'.status = "open") =>
         /\ Len(trades') > Len(trades) \/ last'.op = "bulk_add_user_trade"
         /\ \A i \in (Len(trades) + 1)..Len(trades') : trades'[i].status = "open"
         /\ balance' = balance
         /\ profit' = profit
         /\ notified' = {}]_vars

\* an open trade with a result has been recorded on the account of an active copier
OpenDirectTradeRecorded ==
    /\ last.op = "add_user_trade"
    /\ Len(trades) = 1
    /\ trades[1].status = "open"
    /\ trades[1].profit_loss_percent # 0
    /\ trades[1].user = "u1"
    /\ profit["u1"] = 0
    /\ balance["u1"] = opening["u1"]

\* C14: a trade reaches the accounts that are actively copying when it is recorded
\* and no other: a balance or a profit changes only in the step that records a
\* trade, and only for an account whose relation is active in that step, so an
\* account that starts copying later, or was unlinked or cancelled before, is
\* never changed by the trade.
FanOutUsesCopiersAtRecording ==
    [][\A u \in Users :
         (balance'[u] # balance[u] \/ profit'[u] # profit[u]) =>
             (last'.op = "add_copy_trade" /\ copying[u].is_actively_copying)]_vars

\* an account was unlinked, then a closed trade with a result was recorded: the
\* other copier has the result and the unlinked account has nothing
TradeAfterUnlinkSkipsAccount ==
    /\ last.op = "add_copy_trade"
    /\ Len(trades) = 1
    /\ trades[1].status = "closed"
    /\ trades[1].profit_loss_percent > 0
    /\ copying["u1"].stopped_copying_at = "now"
    /\ ~copying["u1"].is_actively_copying
    /\ copying["u2"].is_actively_copying
    /\ profit["u1"] = 0
    /\ profit["u2"] > 0

\* C15: a closed trade recorded on one account applies
\* pl = investment_amount * percent / 100, whatever the trade's base amount:
\* profit becomes profit + pl, balance becomes balance + pl if pl > 0 and
\* max(0, balance + pl) otherwise.
DirectTradeAppliesInvestmentResult ==
    [][(last'.op = "add_user_trade" /\ last'.status = "closed") =>
         LET trade == trades'[Len(trades')]
             u == trade.user
             pl == (trade.investment_amount * trade.profit_loss_percent) \div 100
         IN /\ profit'[u] = profit[u] + pl
            /\ balance'[u] = IF pl > 0 THEN balance[u] + pl
                             ELSE Max(0, balance[u] + pl)]_vars

\* C16: when a deposit newly becomes completed, through deposit_detail or through
\* edit_deposit, the owner's stored tier afterwards is the tier of the total of
\* the completed deposits as saved, the deposit just completed included.
TierFollowsCompletedDeposit ==
    [][\A t \in Deposits :
         (/\ last'.op \in {"deposit_detail", "edit_deposit"}
          /\ last'.id = t
          /\ txn[t].status # "completed"
          /\ txn'[t].status = "completed") =>
             LET u == TxnUser(t)
                 total == TotalCompletedDeposits(txn', u)
                 tier == determine_tier(total)
             IN /\ total >= txn'[t].amount
                /\ loyalty'[u].current_loyalty_status = tier
                /\ loyalty'[u].next_loyalty_status = get_next_tier_info(tier).next
                /\ loyalty'[u].next_amount_to_upgrade = get_next_tier_info(tier).amount]_vars

\* approving a deposit of 1 beside a completed deposit of 1 has lifted the owner
\* to the tier that starts at their sum
ApprovalReachedNextTier ==
    /\ last.op = "deposit_detail"
    /\ last.id = "d1"
    /\ last.status = "pending"
    /\ \A t \in Deposits : txn[t].status = "completed" /\ txn[t].amount < MaxAmount
    /\ loyalty["u1"].current_loyalty_status = "bronze"

(***************************************************************************)
(* sync_loyalty_tiers                                                      *)
(***************************************************************************)
\* the positions in TIER_ORDER of the tiers whose min_deposit a total has reached
ReachedTiers(total) ==
    {i \in 1..Len(TIER_ORDER) : TIER_CONFIG[TIER_ORDER[i]].min_deposit <= total}

\* C17: determine_tier returns the highest tier of the ordered list whose threshold is at
\* most the total of completed deposits, the entry tier when the total reaches no
\* threshold, and the tier itself (not the one below) when the total equals its threshold.
DetermineTierPicksHighestReached ==
    \A u \in Users :
      LET total == TotalCompletedDeposits(txn, u)
          tier == determine_tier(total)
      IN /\ ReachedTiers(total) = {} => tier = TIER_ORDER[1]
         /\ \A i \in ReachedTiers(total) :
               (\A j \in ReachedTiers(total) : j <= i) => tier = TIER_ORDER[i]
         /\ \A i \in 1..Len(TIER_ORDER) :
               total = TIER_CONFIG[TIER_ORDER[i]].min_deposit
                 => \E k \in i..Len(TIER_ORDER) : tier = TIER_ORDER[k]

\* an applied run moved an account from the entry tier to the tier whose threshold its
\* completed deposits equal exactly
TieStoredAsHigherTier ==
    /\ sync.pc = "done" /\ sync.apply /\ "u1" \notin sync.errors
    /\ TotalCompletedDeposits(txn, "u1") = TIER_CONFIG[TIER_ORDER[2]].min_deposit
    /\ sync.before["u1"].current_loyalty_status = TIER_ORDER[1]
    /\ loyalty["u1"].current_loyalty_status = TIER_ORDER[2]

\* C18: get_next_tier_info returns, for a tier that is not the last of the ordered list,
\* the tier after it and that tier's threshold; for the last tier it returns that tier
\* itself with amount 0, and applying it again to the returned tier gives the same pair.
NextTierInfoStepsOrStays ==
    \A u \in Users : \A i \in 1..Len(TIER_ORDER) :
      loyalty[u].current_loyalty_status = TIER_ORDER[i] =>
        LET info == get_next_tier_info(TIER_ORDER[i]) IN
        IF i < Len(TIER_ORDER)
        THEN /\ info.next = TIER_ORDER[i + 1]
             /\ info.amount = TIER_CONFIG[TIER_ORDER[i + 1]].min_deposit
        ELSE /\ info.next = TIER_ORDER[i]
             /\ info.amount = 0
             /\ get_next_tier_info(info.next) = info

\* an applied run moved an account to the last tier and stored that tier as its own next
\* tier with nothing left to deposit
TopTierStoredAsOwnNext ==
    /\ sync.pc = "done" /\ sync.apply /\ "u1" \notin sync.errors
    /\ sync.before["u1"].current_loyalty_status # TIER_ORDER[Len(TIER_ORDER)]
    /\ loyalty["u1"] = [current_loyalty_status |-> TIER_ORDER[Len(TIER_ORDER)],
                        next_loyalty_status |-> TIER_ORDER[Len(TIER_ORDER)],
                        next_amount_to_upgrade |-> 0]

\* C19: a run without --apply writes nothing: at every step of such a run the tier fields
\* of every account, the balances, profits, transactions, copy relations, trades and
\* notifications stay as they are, so that the stored tier fields at the summary are
\* those found at the start; an account whose stored fields disagree with its completed
\* deposits is still counted in updated (the would-update count).
DryRunWritesNothing ==
    [][(sync.pc = "running" /\ ~sync.apply) =>
         /\ loyalty' = loyalty /\ balance' = balance /\ profit' = profit /\ txn' = txn
         /\ copying' = copying /\ trades' = trades /\ notified' = notified
         /\ copiers' = copiers
         /\ sync'.pc = "done" => loyalty' = sync'.before
         /\ (sync.todo # <<>> /\ sync'.errors = sync.errors
               /\ loyalty[Head(sync.todo)] # update_loyalty_tier(txn, Head(sync.todo)))
              => (sync'.updated = sync.updated + 1
                  /\ sync'.already_correct = sync.already_correct)]_vars

\* a run without --apply has finished, has counted the stale account, and the account's
\* stored fields are still the stale ones
DryRunCountedStaleAccount ==
    /\ sync.pc = "done" /\ ~sync.apply /\ sync.updated > 0
    /\ "u1" \notin sync.errors
    /\ loyalty["u1"] # update_loyalty_tier(txn, "u1")
    /\ loyalty = sync.before

\* C20: when a run with --apply has completed, every account it processed without an
\* error stores the tier resolved from the sum of its completed deposits together with
\* that tier's next tier and threshold; so an account found stale by a dry run agrees
\* with its deposits after the apply run that follows.
ApplyRunReconciles ==
    (sync.pc = "done" /\ sync.apply) =>
      \A u \in Users \ sync.errors :
        LET T == TotalCompletedDeposits(txn, u) IN
        /\ loyalty[u].current_loyalty_status = determine_tier(T)
        /\ loyalty[u].next_loyalty_status = get_next_tier_info(determine_tier(T)).next
        /\ loyalty[u].next_amount_to_upgrade = get_next_tier_info(determine_tier(T)).amount

\* a dry run counted a stale account and the apply run after it brought the account's
\* stored fields into agreement with its deposits
DryRunThenApplyFixedStaleAccount ==
    /\ sync.pc = "done" /\ sync.apply /\ sync.earlier = "dry"
    /\ "u1" \notin sync.errors /\ sync.updated > 0
    /\ sync.before["u1"] # update_loyalty_tier(txn, "u1")
    /\ loyalty["u1"] = update_loyalty_tier(txn, "u1")

\* C21: two runs with --apply in a row: in the second run every account that the first
\* run processed without an error, and that the second run reads without an error, is
\* counted as already correct and is not written; when the first run had no error the
\* second run ends with updated = 0 and the stored fields it found.
SecondApplyRunChangesNothing ==
    [][(sync.pc = "running" /\ sync.apply /\ sync.earlier = "apply") =>
         /\ (sync.todo # <<>> /\ Head(sync.todo) \notin sync.earlier_errors
               /\ sync'.errors = sync.errors)
              => /\ loyalty' = loyalty
                 /\ sync'.already_correct = sync.already_correct + 1
                 /\ sync'.updated = sync.updated
         /\ (sync'.pc = "done" /\ sync.earlier_errors = {})
              => (sync'.updated = 0 /\ loyalty' = sync'.before)]_vars

\* the first apply run updated a stale account and the second one, finished without an
\* error, counted every account as already correct
SecondApplyRunFoundAllCorrect ==
    /\ sync.pc = "done" /\ sync.apply /\ sync.earlier = "apply" /\ sync.runs = 2
    /\ sync.earlier_errors = {} /\ sync.errors = {}
    /\ sync.earlier_updated > 0
    /\ sync.already_correct = Cardinality(Users) /\ sync.updated = 0

\* C23: a run terminates, and at its summary it has visited every account that was in
\* the table at its start exactly once and in ascending id order, whatever the number of
\* accounts is relative to the chunk size.
SyncVisitsEveryAccountOnce ==
    (sync.pc = "running") ~>
      (sync.pc = "done"
         /\ sync.visited = SelectSeq(AccountOrder, LAMBDA a : a \in DOMAIN loyalty))

\* a run has finished on a table of more accounts than one chunk holds and not a
\* multiple of the chunk size, with every account visited
RunCrossedChunkBoundaryWithRemainder ==
    /\ sync.pc = "done"
    /\ Len(sync.visited) > CHUNK_SIZE
    /\ Len(sync.visited) % CHUNK_SIZE # 0
    /\ Len(sync.visited) = Cardinality(DOMAIN loyalty)

\* C22: when the processing of an account fails during a run, the account is added to
\* the error list, its stored tier fields stay as they were, and the run goes on: the
\* accounts after it in the chunk and the chunks after it are still to be processed.
FailureIsRecordedAndRunGoesOn ==
    [][(sync.pc = "running" /\ sync.todo # <<>> /\ sync'.errors # sync.errors) =>
         /\ sync'.errors = sync.errors \cup {Head(sync.todo)}
         /\ loyalty' = loyalty
         /\ sync'.pc = "running"
         /\ sync'.todo = Tail(sync.todo)
         /\ sync'.all_ids = sync.all_ids
         /\ sync'.chunk_start = sync.chunk_start]_vars

\* C30: at the summary of a run, with or without --apply, every account fetched for
\* processing has been counted in exactly one of already_correct, updated and errors:
\* total_users = already_correct + updated + len(errors).
SyncCountsPartitionAccounts ==
    sync.pc = "done" =>
      Len(sync.all_ids) = sync.already_correct + sync.updated + Cardinality(sync.errors)

\* the fields of a POST that the form of the handler does not accept
InvalidInput(op, status, amount_ok) ==
    \/ op \in {"deposit_detail", "withdrawal_detail"} /\ status \notin {"completed", "failed"}
    \/ op \in {"edit_deposit", "edit_withdrawal"}
         /\ (status \notin {"pending", "completed", "failed", "cancelled"} \/ ~amount_ok)
    \/ op \in {"add_copy_trade", "add_user_trade"}
         /\ (status \notin {"open", "closed"} \/ ~amount_ok)

\* C24: a submission to edit_deposit, edit_withdrawal, deposit_detail, withdrawal_detail,
\* add_copy_trade or add_user_trade whose input fails validation mutates nothing: no
\* transaction, trade, balance, profit, tier field, copy relation or notification is
\* created or changed.
InvalidInputMutatesNothing ==
    [][\A op \in FormOps : \A s \in PostedStatuses(op), ok \in BOOLEAN :
         \A a \in PostedAmounts(op, ok) :
         (InvalidInput(op, s, ok) /\ PostForm(op, s, a, ok)) =>
           UNCHANGED <<balance, profit, loyalty, txn, copying, trades, notified, applied,
                       copiers>>]_vars

\* after an accepted closed trade, a POST with a status that is no choice of the form
\* was answered without touching the records
InvalidPostAfterTrade ==
    /\ last.id = "invalid" /\ last.status = "bogus"
    /\ Len(trades) = 1 /\ trades[1].status = "closed"

\* C25: when the fan-out of a closed trade fails after some of the active copiers were
\* updated, the trade record is still there, the copiers already reached keep the
\* result applied to their balance and profit, the copiers not yet reached are as they
\* were, and no step follows that undoes or repeats the batch.
PartialFanOutStays ==
    req["a1"].pc = "failed" =>
      LET trade == trades[Len(trades)]
          pl == (trade.amount * trade.profit_loss_percent) \div 100
          counts == trade.status = "closed" /\ trade.profit_loss_percent # 0
          reached == copying_users \ req["a1"].todo
      IN /\ Len(trades) = 1
         /\ \A u \in Users \ reached : balance[u] = opening[u] /\ profit[u] = 0
         /\ \A u \in reached :
               /\ profit[u] = (IF counts THEN pl ELSE 0)
               /\ balance[u] = (IF ~counts THEN opening[u]
                                ELSE IF pl > 0 THEN opening[u] + pl
                                ELSE Max(0, opening[u] + pl))
         /\ ~ENABLED NextFanOut

\* the fan-out of a closed trade failed after one of two active copiers was updated
FanOutFailedAfterFirstCopier ==
    /\ req["a1"].pc = "failed"
    /\ copying_users = Users
    /\ \E u \in Users : req["a1"].todo = {u}
    /\ \E u \in Users : profit[u] # 0

\* C26: through withdrawal_detail, approving a withdrawal leaves the balance as it is,
\* and rejecting a withdrawal that is already failed, and so already refunded, does not
\* refund it again, whatever approvals, rejections and edits came before.
WithdrawalRefundedOncePerDeduction ==
    [][\A t \in Withdrawals \cap DOMAIN txn :
         (last'.op = "withdrawal_detail" /\ last'.id = t
            /\ (txn'[t].status = "completed" \/ txn[t].status = "failed"))
           => balance' = balance]_vars

\* C27: a run of fix_investment_amounts leaves every relation whose
\* initial_investment_amount is not 0 as it is; with --apply a relation holding 0 gets
\* its minimum_threshold_at_start when that is above 0, otherwise the trader's
\* min_account_threshold when that is above 0, otherwise it stays 0 and is counted as
\* skipped; without --apply nothing is written; total = updated + skipped; and an
\* --apply run that follows an --apply run updates no relation.
BackfillTouchesOnlyZeroRelations ==
    [][last'.op = "fix_investment_amounts" =>
         /\ \A u \in Users :
               LET r == copying[u]
                   fill == IF r.minimum_threshold_at_start > 0
                           THEN r.minimum_threshold_at_start
                           ELSE r.trader_min_account_threshold
               IN copying'[u] =
                    IF last'.status = "apply" /\ r.initial_investment_amount = 0
                    THEN [r EXCEPT !.initial_investment_amount = fill]
                    ELSE r
         /\ last'.total = Cardinality({u \in Users : copying[u].initial_investment_amount = 0})
         /\ last'.skipped =
               Cardinality({u \in Users : /\ copying[u].initial_investment_amount = 0
                                          /\ copying[u].minimum_threshold_at_start = 0
                                          /\ copying[u].trader_min_account_threshold = 0})
         /\ last'.total = last'.updated + last'.skipped
         /\ (last.op = "fix_investment_amounts" /\ last.status = "apply"
               /\ last'.status = "apply")
              => (last'.updated = 0 /\ copying' = copying)]_vars

\* an --apply run has filled one relation and skipped another that has no threshold
BackfillFilledOneSkippedOne ==
    /\ last.op = "fix_investment_amounts" /\ last.status = "apply"
    /\ last.updated = 1 /\ last.skipped = 1
    /\ \E u \in Users : /\ copying[u].initial_investment_amount > 0
                         /\ copying[u].initial_investment_amount # InvestmentOf(u)

\* C28: the stored tier fields of an account change only in a step in which one of its
\* deposits newly becomes completed, or in a step of a sync_loyalty_tiers run with
\* --apply; every other admin action (status edits away from completed, amount edits
\* of a completed deposit, withdrawal edits, trades) leaves them as they are.
TierChangesOnlyOnNewCompletion ==
    [][loyalty' # loyalty =>
         \/ \E t \in Deposits \cap DOMAIN txn :
               txn[t].status # "completed" /\ txn'[t].status = "completed"
         \/ sync.pc = "running" /\ sync.apply]_vars

\* C29: under unlink_copier and handle_cancel_request the trader's copier count never
\* goes below 0 and goes down at most once for a relation: an action on a relation
\* that is already inactive leaves the count as it is, and rejecting a cancel request
\* changes neither the count nor the relation's active flag.
CopierCountOncePerRelation ==
    [][\A u \in Users :
         (last'.id = u /\ last'.op \in {"unlink_copier", "handle_cancel_request"}) =>
           /\ copiers' >= 0
           /\ ~copying[u].is_actively_copying => copiers' = copiers
           /\ (last'.op = "handle_cancel_request" /\ last'.status = "reject") =>
                 /\ copiers' = copiers
                 /\ copying'[u].is_actively_copying = copying[u].is_actively_copying]_vars

====
